---- MODULE Spec2Model ----
(***************************************************************************)
(* Model of the SmartStore web client's real-time monitoring page          *)
(* (Monitoring.svelte: connectSSE, addMetric, disconnect, onMount,         *)
(* onDestroy) together with api.createEventSource.                         *)
(*                                                                         *)
(* The page keeps one shared variable eventSource that holds the most      *)
(* recently created EventSource.  Every EventSource ever created keeps its *)
(* own readyState (CONNECTING, OPEN, CLOSED) and keeps delivering          *)
(* callbacks until it is closed; a closed EventSource delivers nothing.    *)
(* Reconnect timers created by setTimeout are anonymous: the page keeps no *)
(* timer id, so they are modelled by their number.                         *)
(***************************************************************************)
EXTENDS Integers, Sequences, FiniteSets, TLC

(* ---------------------------------------------------------------------- *)
(* Bounds                                                                  *)
(* ---------------------------------------------------------------------- *)

\* EventSource objects the page may create in one run.
MaxHandles == 3

\* addMetric calls in one run of the free specification.
MaxAppends == 3

\* addMetric calls in one run of the fair specification.
MaxFairAppends == 2

\* addMetric calls in one run of the log-filling specification.
MaxLogAppends == 150

\* loadStats requests of the Dashboard page that may be in flight at once.
MaxRequests == 2

\* Status requests of the training poller that may be in flight at once.
MaxInflight == 2

\* Calls of api.request that may be in flight at once.
MaxCalls == 2

\* In the log-filling specification the stream is quiet (one connection
\* that only delivers metric messages) until this many entries were appended.
QuietAppends == 147

(* ---------------------------------------------------------------------- *)
(* Program constants                                                       *)
(* ---------------------------------------------------------------------- *)

\* metrics.slice(0, 99): the number of old entries kept by addMetric.
KeepCount == 99

Handles == 1..MaxHandles

\* The initial stats object.
InitialStats == [k \in {"total_keys", "cache_hit_rate",
                        "avg_response_time_ms", "requests_per_second"} |-> 0]

\* Decoded JSON payloads the server sends, as mappings from key to value.
PayloadHit == [k \in {"cache_hit_rate"} |-> 9]
PayloadKeys == [k \in {"total_keys"} |-> 10]
PayloadMetric == [k \in {"metric", "value"} |-> IF k = "metric" THEN "cpu" ELSE 1]
PayloadBoth == [k \in {"total_keys", "cache_hit_rate"} |->
                   IF k = "total_keys" THEN 10 ELSE 5]
PayloadMetricKeys == [k \in {"metric", "value", "total_keys"} |->
                         IF k = "metric" THEN "cpu" ELSE IF k = "value" THEN 1 ELSE 10]
PayloadMetricHit == [k \in {"metric", "value", "cache_hit_rate"} |->
                        IF k = "metric" THEN "cpu" ELSE IF k = "value" THEN 1 ELSE 9]
Payloads == {PayloadHit, PayloadKeys, PayloadMetric, PayloadBoth, PayloadMetricKeys,
             PayloadMetricHit}

\* Values of the stored auth token.  getItem returns null for an absent item.
NoToken == "NULL"
TokenValues == {"t1", "t2"}
StoredTokens == TokenValues \cup {NoToken}

\* The initial stats object of the Dashboard page.
DashInitialStats == [k \in {"total_keys", "cache_hit_rate", "avg_response_time_ms",
                            "requests_per_second", "total_size_bytes",
                            "uptime_seconds", "memory_usage_mb"} |-> 0]

\* Payloads of the stream's message events on the Dashboard page.
DashPayloads == {PayloadHit, PayloadKeys, PayloadMetric}

\* raw.stats of two responses of api.getStats(): a complete one and one
\* that lacks most fields.
RawFull == [k \in {"total_keys", "hit_rate", "hits", "misses", "cache_size",
                   "uptime_seconds", "memory_usage_mb"} |->
               IF k = "total_keys" THEN 7 ELSE IF k = "hit_rate" THEN 3
               ELSE IF k = "hits" THEN 2 ELSE IF k = "misses" THEN 1
               ELSE IF k = "cache_size" THEN 4 ELSE IF k = "uptime_seconds" THEN 5
               ELSE 6]
RawPartial == [k \in {"total_keys", "hits"} |-> IF k = "total_keys" THEN 8 ELSE 2]
RawStats == {RawFull, RawPartial}

\* Messages of the errors loadStats can catch.
LoadErrors == {"Request failed", "Backend returned invalid JSON"}

\* Statuses the server reports for a training task, and the progress it
\* reports with each.
TaskStatuses == {"PENDING", "STARTED", "SUCCESS", "FAILURE"}
ServerProgress(st) ==
    IF st = "PENDING" THEN 0 ELSE IF st = "SUCCESS" THEN 90 ELSE 50

\* What a status request in flight will deliver: nothing yet (the server has
\* not answered), a status, or a failure of the request.
Deliveries == {"REQ", "ERR"} \cup TaskStatuses

\* Responses of the backend to a call of api.request: the status and the
\* kind of body (a JSON object, a JSON object with a detail field, no text,
\* text that is not JSON).
Responses == [status : {200, 401, 500}, body : {"json", "detail", "empty", "garbage"}]

\* The stats fields the page displays.
RecognizedFields == {"total_keys", "cache_hit_rate",
                     "avg_response_time_ms", "requests_per_second"}

VARIABLES
    phase,        \* component lifecycle: "created", "mounted", "destroyed"
    eventSource,  \* the shared variable: 0 is null, else the handle it holds
    readyState,   \* readyState of every handle; "NONE" before it is created
    connected,    \* the displayed connection flag
    metrics,      \* the activity log, newest first
    stats,        \* the stats snapshot
    timers,       \* number of pending reconnect timers
    appended,     \* number of addMetric calls so far (the clock of the log)
    budget,       \* number of addMetric calls the run may still make
    escaped,      \* TRUE once an exception has escaped an event listener
    beats,        \* TRUE once a heartbeat event was handled
    token,        \* localStorage item "token"; NoToken when the item is absent
    urlToken,     \* the token query parameter of every handle's URL
    rInflight,    \* api.request calls in flight, counted by the token they read
    rOutcome,     \* how the last finished api.request call ended; "none" before
    rLocation,    \* window.location: "app" or "/login"
    dPhase,       \* Dashboard page lifecycle: "created", "mounted", "destroyed"
    dReady,       \* readyState of the Dashboard's EventSource; "NONE" before it exists
    dStats,       \* the Dashboard's stats object
    dLoading,     \* the Dashboard's loading flag
    dError,       \* the Dashboard's error message; "null" when there is none
    dPending,     \* loadStats calls waiting for api.getStats()
    dErrored,     \* TRUE once the Dashboard's onerror listener has run
    pStatus,      \* trainingTasks[modelId].status; "NONE" before the entry exists
    pProgress,    \* trainingTasks[modelId].progress
    pInterval,    \* TRUE while the setInterval of the poller is active
    pInflight,    \* status requests in flight, counted by what they will deliver
    pServer,      \* the status of the training task on the server
    pSawSuccess   \* TRUE once a poll has observed status SUCCESS

\* The variables of the monitoring page.
monVars == <<phase, eventSource, readyState, connected, metrics, stats, timers,
             appended, budget, escaped, beats>>

\* The auth store and what was read from it.
authVars == <<token, urlToken, rInflight, rOutcome, rLocation>>

\* The variables of api.request.
reqVars == <<rInflight, rOutcome, rLocation>>

\* The variables of the Dashboard page.
dashVars == <<dPhase, dReady, dStats, dLoading, dError, dPending, dErrored>>

\* The variables of the training-status poller of the ML models page.
pollVars == <<pStatus, pProgress, pInterval, pInflight, pServer, pSawSuccess>>

vars == <<monVars, authVars, dashVars, pollVars>>

(* ---------------------------------------------------------------------- *)
(* Pure helpers                                                            *)
(* ---------------------------------------------------------------------- *)

Min(a, b) == IF a < b THEN a ELSE b

\* Array.prototype.slice(from, to) for 0 <= from <= to.
Slice(s, from, to) == SubSeq(s, from + 1, Min(to, Len(s)))

\* addMetric with slice(0, 100): one old entry too many is kept.
AddMetricKeepsTooMany(log, n, message, type) ==
    <<[timestamp |-> n + 1, message |-> message, type |-> type]>>
        \o Slice(log, 0, KeepCount + 1)

\* addMetric with slice(1, 100): the newest old entry is dropped, not the oldest.
AddMetricDropsNewest(log, n, message, type) ==
    <<[timestamp |-> n + 1, message |-> message, type |-> type]>>
        \o SubSeq(log, 2, Min(KeepCount + 1, Len(log)))

\* addMetric: the new entry goes to the front, followed by the first
\* KeepCount old entries.  The timestamp is the ordinal of the call.
AddMetric(log, n, message, type) ==
    <<[timestamp |-> n + 1, message |-> message, type |-> type]>>
        \o Slice(log, 0, KeepCount)

\* A merge over the known fields only: keys the snapshot lacks are dropped.
MergeKnownOnly(s, data) ==
    [k \in DOMAIN s |-> IF k \in DOMAIN data THEN data[k] ELSE s[k]]

\* A full replace: fields absent from the update fall back to 0.
MergeReplaces(s, data) ==
    [k \in (DOMAIN s) \cup (DOMAIN data) |->
        IF k \in DOMAIN data THEN data[k] ELSE 0]

\* { ...stats, ...data }
Merge(s, data) ==
    [k \in (DOMAIN s) \cup (DOMAIN data) |->
        IF k \in DOMAIN data THEN data[k] ELSE s[k]]

\* `${data.metric}: ${data.value}`
FormatMetric(data) ==
    IF data["metric"] = "cpu" /\ data["value"] = 1 THEN "cpu: 1" ELSE "metric"

\* `?token=${token}`: null is written as the text null.
TokenQuery(t) == IF t = NoToken THEN "null" ELSE t

\* authStore.getToken()
GetToken == token

NumCreated == Cardinality({h \in Handles : readyState[h] # "NONE"})

\* Handles that were created and not closed.
Live == {h \in Handles : readyState[h] \in {"CONNECTING", "OPEN"}}

\* The connection state of the specification's state machine, read off the
\* page's variables: the transport held by the shared variable decides, and
\* a pending reconnect timer makes a page without transport ReconnectScheduled.
ConnectionState ==
    IF eventSource # 0 /\ readyState[eventSource] = "OPEN" THEN "Connected"
    ELSE IF eventSource # 0 /\ readyState[eventSource] = "CONNECTING" THEN "Connecting"
    ELSE IF timers > 0 THEN "ReconnectScheduled"
    ELSE "Disconnected"

\* No api.request call was made yet.
ReqIdle ==
    /\ rInflight = [t \in StoredTokens |-> 0]
    /\ rOutcome = "none"
    /\ rLocation = "app"

\* The Dashboard page before it is mounted.
DashIdle ==
    /\ dPhase = "created"
    /\ dReady = "NONE"
    /\ dStats = DashInitialStats
    /\ dLoading = TRUE
    /\ dError = "null"
    /\ dPending = 0
    /\ dErrored = FALSE

\* The ML models page before any training was started: trainingTasks = {}.
PollIdle ==
    /\ pStatus = "NONE"
    /\ pProgress = 0
    /\ pInterval = FALSE
    /\ pInflight = [d \in Deliveries |-> 0]
    /\ pServer = "NONE"
    /\ pSawSuccess = FALSE

Init ==
    /\ phase = "created"
    /\ eventSource = 0
    /\ readyState = [h \in Handles |-> "NONE"]
    /\ connected = FALSE
    /\ metrics = <<>>
    /\ stats = InitialStats
    /\ timers = 0
    /\ appended = 0
    /\ budget = MaxAppends
    /\ escaped = FALSE
    /\ beats = FALSE
    /\ token = "t1"
    /\ urlToken = [h \in Handles |-> "none"]
    /\ ReqIdle
    /\ DashIdle
    /\ PollIdle

(* ---------------------------------------------------------------------- *)
(* Functions of the page                                                   *)
(* ---------------------------------------------------------------------- *)

\* api.createEventSource: a new EventSource starts in CONNECTING.
CreateEventSource(rs) == [rs EXCEPT ![NumCreated + 1] = "CONNECTING"]

\* connectSSE() that reuses the token read by the first connection attempt.
ConnectSSECachedToken ==
    /\ NumCreated < MaxHandles
    /\ eventSource' = NumCreated + 1
    /\ readyState' = CreateEventSource(readyState)
    /\ urlToken' = [urlToken EXCEPT ![NumCreated + 1] =
                        IF NumCreated = 0 THEN TokenQuery(GetToken) ELSE urlToken[1]]

\* connectSSE(): stores a new EventSource in the shared variable and
\* registers the listeners on it.  createEventSource reads the stored token
\* and writes it into the URL of the new EventSource.
ConnectSSE ==
    /\ NumCreated < MaxHandles
    /\ eventSource' = NumCreated + 1
    /\ readyState' = CreateEventSource(readyState)
    /\ urlToken' = [urlToken EXCEPT ![NumCreated + 1] = TokenQuery(GetToken)]

\* disconnect() that also empties the log before it appends its notice.
DisconnectClearsLog ==
    IF eventSource # 0
    THEN /\ readyState' = [readyState EXCEPT ![eventSource] = "CLOSED"]
         /\ connected' = FALSE
         /\ budget > 0
         /\ metrics' = AddMetric(<<>>, appended, "Disconnected from stream", "warning")
         /\ appended' = appended + 1 /\ budget' = budget - 1
    ELSE UNCHANGED <<readyState, connected, metrics, appended, budget>>

\* disconnect()
Disconnect ==
    IF eventSource # 0
    THEN /\ readyState' = [readyState EXCEPT ![eventSource] = "CLOSED"]
         /\ connected' = FALSE
         /\ budget > 0
         /\ metrics' = AddMetric(metrics, appended, "Disconnected from stream", "warning")
         /\ appended' = appended + 1 /\ budget' = budget - 1
    ELSE UNCHANGED <<readyState, connected, metrics, appended, budget>>

(* ---------------------------------------------------------------------- *)
(* Steps                                                                   *)
(* ---------------------------------------------------------------------- *)

\* onMount(() => connectSSE())
OnMount ==
    /\ phase = "created"
    /\ phase' = "mounted"
    /\ ConnectSSE
    /\ UNCHANGED <<connected, metrics, stats, timers, appended, budget, escaped, beats>>
    /\ UNCHANGED <<token, reqVars>>
    /\ UNCHANGED <<dashVars, pollVars>>

\* The Connect button, rendered while connected is false.
ClickConnect ==
    /\ phase = "mounted"
    /\ ~connected
    /\ ConnectSSE
    /\ UNCHANGED <<phase, connected, metrics, stats, timers, appended, budget, escaped, beats>>
    /\ UNCHANGED <<token, reqVars>>
    /\ UNCHANGED <<dashVars, pollVars>>

\* The Disconnect button, rendered while connected is true.
ClickDisconnect ==
    /\ phase = "mounted"
    /\ connected
    /\ Disconnect
    /\ UNCHANGED <<phase, eventSource, stats, timers, escaped, beats>>
    /\ UNCHANGED authVars
    /\ UNCHANGED <<dashVars, pollVars>>

\* onDestroy(() => disconnect())
OnDestroy ==
    /\ phase = "mounted"
    /\ phase' = "destroyed"
    /\ Disconnect
    /\ UNCHANGED <<eventSource, stats, timers, escaped, beats>>
    /\ UNCHANGED authVars
    /\ UNCHANGED <<dashVars, pollVars>>

\* The callback of setTimeout(..., 3000) runs: connectSSE().
TimerFire ==
    /\ timers > 0
    /\ timers' = timers - 1
    /\ ConnectSSE
    /\ UNCHANGED <<phase, connected, metrics, stats, appended, budget, escaped, beats>>
    /\ UNCHANGED <<token, reqVars>>
    /\ UNCHANGED <<dashVars, pollVars>>

\* onopen that logs its notice with the default severity.
TransportOpenInfo(h) ==
    /\ readyState[h] = "CONNECTING"
    /\ budget > 0
    /\ readyState' = [readyState EXCEPT ![h] = "OPEN"]
    /\ connected' = TRUE
    /\ metrics' = AddMetric(metrics, appended, "Connected to real-time stream", "info")
    /\ appended' = appended + 1 /\ budget' = budget - 1
    /\ UNCHANGED <<phase, eventSource, stats, timers, escaped, beats>>
    /\ UNCHANGED authVars
    /\ UNCHANGED <<dashVars, pollVars>>

\* Handle h opens; its onopen listener runs.
TransportOpen(h) ==
    /\ readyState[h] = "CONNECTING"
    /\ budget > 0
    /\ readyState' = [readyState EXCEPT ![h] = "OPEN"]
    /\ connected' = TRUE
    /\ metrics' = AddMetric(metrics, appended, "Connected to real-time stream", "success")
    /\ appended' = appended + 1 /\ budget' = budget - 1
    /\ UNCHANGED <<phase, eventSource, stats, timers, escaped, beats>>
    /\ UNCHANGED authVars
    /\ UNCHANGED <<dashVars, pollVars>>

\* onerror that also resets the stats to their defaults.
TransportErrorResetsStats(h, fatal) ==
    /\ readyState[h] \in {"CONNECTING", "OPEN"}
    /\ fatal => readyState[h] = "CONNECTING"
    /\ budget > 0
    /\ connected' = FALSE
    /\ metrics' = AddMetric(metrics, appended, "Connection lost, reconnecting...", "error")
    /\ appended' = appended + 1 /\ budget' = budget - 1
    /\ readyState' = [readyState EXCEPT ![h] = IF fatal THEN "CLOSED" ELSE "CONNECTING",
                                        ![eventSource] = "CLOSED"]
    /\ timers' = timers + 1
    /\ stats' = InitialStats
    /\ UNCHANGED <<phase, eventSource, escaped, beats>>
    /\ UNCHANGED authVars
    /\ UNCHANGED <<dashVars, pollVars>>

\* onerror without the setTimeout: the handle is closed and nothing is scheduled.
TransportErrorNoRetry(h, fatal) ==
    /\ readyState[h] \in {"CONNECTING", "OPEN"}
    /\ fatal => readyState[h] = "CONNECTING"
    /\ budget > 0
    /\ connected' = FALSE
    /\ metrics' = AddMetric(metrics, appended, "Connection lost, reconnecting...", "error")
    /\ appended' = appended + 1 /\ budget' = budget - 1
    /\ readyState' = [readyState EXCEPT ![h] = IF fatal THEN "CLOSED" ELSE "CONNECTING",
                                        ![eventSource] = "CLOSED"]
    /\ UNCHANGED <<phase, eventSource, stats, timers, escaped, beats>>
    /\ UNCHANGED authVars
    /\ UNCHANGED <<dashVars, pollVars>>

\* onerror with a retry cap: no timer is set once two handles were created.
TransportErrorCapped(h, fatal) ==
    /\ readyState[h] \in {"CONNECTING", "OPEN"}
    /\ fatal => readyState[h] = "CONNECTING"
    /\ budget > 0
    /\ connected' = FALSE
    /\ metrics' = AddMetric(metrics, appended, "Connection lost, reconnecting...", "error")
    /\ appended' = appended + 1 /\ budget' = budget - 1
    /\ readyState' = [readyState EXCEPT ![h] = IF fatal THEN "CLOSED" ELSE "CONNECTING",
                                        ![eventSource] = "CLOSED"]
    /\ timers' = IF NumCreated < 2 THEN timers + 1 ELSE timers
    /\ UNCHANGED <<phase, eventSource, stats, escaped, beats>>
    /\ UNCHANGED authVars
    /\ UNCHANGED <<dashVars, pollVars>>

\* Handle h reports an error; its onerror listener runs.  The browser
\* either gives up on h (fatal: h becomes CLOSED; only a connection that
\* never opened fails this way) or starts to re-establish it (h becomes
\* CONNECTING) before it fires the event.  The listener closes the handle
\* held by the shared variable, whichever handle reported the error.
TransportError(h, fatal) ==
    /\ readyState[h] \in {"CONNECTING", "OPEN"}
    /\ fatal => readyState[h] = "CONNECTING"
    /\ budget > 0
    /\ connected' = FALSE
    /\ metrics' = AddMetric(metrics, appended, "Connection lost, reconnecting...", "error")
    /\ appended' = appended + 1 /\ budget' = budget - 1
    /\ readyState' = [readyState EXCEPT ![h] = IF fatal THEN "CLOSED" ELSE "CONNECTING",
                                        ![eventSource] = "CLOSED"]
    /\ timers' = timers + 1
    /\ UNCHANGED <<phase, eventSource, stats, escaped, beats>>
    /\ UNCHANGED authVars
    /\ UNCHANGED <<dashVars, pollVars>>

\* initial_stats listener that logs at once and leaves the merge for later.
InitialStatsEventLogOnly(h, data) ==
    /\ readyState[h] = "OPEN"
    /\ budget > 0
    /\ metrics' = AddMetric(metrics, appended, "Initial stats received", "info")
    /\ appended' = appended + 1 /\ budget' = budget - 1
    /\ UNCHANGED <<phase, eventSource, readyState, connected, stats, timers, escaped, beats>>
    /\ UNCHANGED authVars
    /\ UNCHANGED <<dashVars, pollVars>>

\* initial_stats listener that logs only on the first connection.
InitialStatsEventFirstOnly(h, data) ==
    /\ readyState[h] = "OPEN"
    /\ stats' = Merge(stats, data)
    /\ IF h = 1
       THEN /\ budget > 0
            /\ metrics' = AddMetric(metrics, appended, "Initial stats received", "info")
            /\ appended' = appended + 1 /\ budget' = budget - 1
       ELSE UNCHANGED <<metrics, appended, budget>>
    /\ UNCHANGED <<phase, eventSource, readyState, connected, timers, escaped, beats>>
    /\ UNCHANGED authVars
    /\ UNCHANGED <<dashVars, pollVars>>

\* Handle h delivers an initial_stats event with a JSON payload.
InitialStatsEvent(h, data) ==
    /\ readyState[h] = "OPEN"
    /\ budget > 0
    /\ stats' = Merge(stats, data)
    /\ metrics' = AddMetric(metrics, appended, "Initial stats received", "info")
    /\ appended' = appended + 1 /\ budget' = budget - 1
    /\ UNCHANGED <<phase, eventSource, readyState, connected, timers, escaped, beats>>
    /\ UNCHANGED authVars
    /\ UNCHANGED <<dashVars, pollVars>>

\* Handle h delivers an unnamed (message) event with a JSON payload.
MessageEvent(h, data) ==
    /\ readyState[h] = "OPEN"
    /\ IF "metric" \in DOMAIN data /\ data["metric"] # ""
       THEN /\ budget > 0
            /\ metrics' = AddMetric(metrics, appended, FormatMetric(data), "info")
            /\ appended' = appended + 1 /\ budget' = budget - 1
       ELSE UNCHANGED <<metrics, appended, budget>>
    /\ IF "cache_hit_rate" \in DOMAIN data
       THEN stats' = Merge(stats, data)
       ELSE UNCHANGED stats
    /\ UNCHANGED <<phase, eventSource, readyState, connected, timers, escaped, beats>>
    /\ UNCHANGED authVars
    /\ UNCHANGED <<dashVars, pollVars>>

\* heartbeat listener that logs the heartbeat.
HeartbeatEventLogs(h) ==
    /\ readyState[h] = "OPEN"
    /\ beats' = TRUE
    /\ budget > 0
    /\ metrics' = AddMetric(metrics, appended, "Heartbeat", "info")
    /\ appended' = appended + 1 /\ budget' = budget - 1
    /\ UNCHANGED <<phase, eventSource, readyState, connected, stats, timers, escaped>>
    /\ UNCHANGED authVars
    /\ UNCHANGED <<dashVars, pollVars>>

\* Handle h delivers a heartbeat event: the listener body is empty.
HeartbeatEvent(h) ==
    /\ readyState[h] = "OPEN"
    /\ beats' = TRUE
    /\ UNCHANGED <<phase, eventSource, readyState, connected, metrics, stats,
                   timers, appended, budget, escaped>>
    /\ UNCHANGED authVars
    /\ UNCHANGED <<dashVars, pollVars>>

\* Handle h delivers an initial_stats or message event whose text is not
\* JSON: JSON.parse throws before the listener has assigned anything, and
\* nothing in the listener catches it.
MalformedEvent(h) ==
    /\ readyState[h] = "OPEN"
    /\ escaped' = TRUE
    /\ UNCHANGED <<phase, eventSource, readyState, connected, metrics, stats,
                   timers, appended, budget, beats>>
    /\ UNCHANGED authVars
    /\ UNCHANGED <<dashVars, pollVars>>

Next ==
    \/ OnMount
    \/ ClickConnect
    \/ ClickDisconnect
    \/ OnDestroy
    \/ TimerFire
    \/ \E h \in Handles : TransportOpen(h)
    \/ \E h \in Handles : \E fatal \in BOOLEAN : TransportError(h, fatal)
    \/ \E h \in Handles : \E data \in Payloads : InitialStatsEvent(h, data)
    \/ \E h \in Handles : \E data \in Payloads : MessageEvent(h, data)
    \/ \E h \in Handles : HeartbeatEvent(h)
    \/ \E h \in Handles : MalformedEvent(h)

Spec == Init /\ [][Next]_vars

(* ---------------------------------------------------------------------- *)
(* The log-filling specification: the same page and the same steps, with   *)
(* room for MaxLogAppends appends.  Until QuietAppends entries were        *)
(* appended the environment is quiet: the page is mounted, its first       *)
(* connection opens and delivers metric messages.  From then on every step *)
(* of Next may happen, so the full log meets every kind of append.         *)
(* ---------------------------------------------------------------------- *)

LogInit ==
    /\ phase = "created"
    /\ eventSource = 0
    /\ readyState = [h \in Handles |-> "NONE"]
    /\ connected = FALSE
    /\ metrics = <<>>
    /\ stats = InitialStats
    /\ timers = 0
    /\ appended = 0
    /\ budget = MaxLogAppends
    /\ escaped = FALSE
    /\ beats = FALSE
    /\ token = "t1"
    /\ urlToken = [h \in Handles |-> "none"]
    /\ ReqIdle
    /\ DashIdle
    /\ PollIdle

Quiet == appended < QuietAppends

LogNext ==
    \/ Quiet /\ OnMount
    \/ Quiet /\ TransportOpen(1)
    \/ Quiet /\ MessageEvent(1, PayloadMetric)
    \/ ~Quiet /\ ClickConnect
    \/ ~Quiet /\ ClickDisconnect
    \/ ~Quiet /\ OnDestroy
    \/ ~Quiet /\ TimerFire
    \/ ~Quiet /\ \E h \in Handles : TransportOpen(h)
    \/ ~Quiet /\ \E h \in Handles : \E fatal \in BOOLEAN : TransportError(h, fatal)
    \/ ~Quiet /\ \E h \in Handles : \E data \in Payloads : InitialStatsEvent(h, data)
    \/ ~Quiet /\ \E h \in Handles : \E data \in Payloads : MessageEvent(h, data)
    \/ ~Quiet /\ \E h \in Handles : HeartbeatEvent(h)
    \/ ~Quiet /\ \E h \in Handles : MalformedEvent(h)

LogSpec == LogInit /\ [][LogNext]_vars

\* setTimeout callbacks are run by the event loop: a pending reconnect
\* timer that can fire eventually fires.
FairInit ==
    /\ phase = "created"
    /\ eventSource = 0
    /\ readyState = [h \in Handles |-> "NONE"]
    /\ connected = FALSE
    /\ metrics = <<>>
    /\ stats = InitialStats
    /\ timers = 0
    /\ appended = 0
    /\ budget = MaxFairAppends
    /\ escaped = FALSE
    /\ beats = FALSE
    /\ token = "t1"
    /\ urlToken = [h \in Handles |-> "none"]
    /\ ReqIdle
    /\ DashIdle
    /\ PollIdle

FairSpec == FairInit /\ [][Next]_vars /\ WF_vars(TimerFire)

(* ---------------------------------------------------------------------- *)
(* The token specification: the connection steps of the page while the     *)
(* stored token changes under it.  localStorage is shared by every tab of  *)
(* the application, so a login or a rejected request elsewhere rewrites    *)
(* the item while this page is mounted.                                    *)
(* ---------------------------------------------------------------------- *)

\* authStore.setToken(data.access_token) after a login.
SetToken(t) ==
    /\ token' = t
    /\ UNCHANGED <<monVars, urlToken, reqVars>>
    /\ UNCHANGED <<dashVars, pollVars>>

\* authStore.clearToken() after a response with status 401.
ClearToken ==
    /\ token' = NoToken
    /\ UNCHANGED <<monVars, urlToken, reqVars>>
    /\ UNCHANGED <<dashVars, pollVars>>

TokenInit ==
    /\ phase = "created"
    /\ eventSource = 0
    /\ readyState = [h \in Handles |-> "NONE"]
    /\ connected = FALSE
    /\ metrics = <<>>
    /\ stats = InitialStats
    /\ timers = 0
    /\ appended = 0
    /\ budget = MaxAppends
    /\ escaped = FALSE
    /\ beats = FALSE
    /\ token \in StoredTokens
    /\ urlToken = [h \in Handles |-> "none"]
    /\ ReqIdle
    /\ DashIdle
    /\ PollIdle

TokenNext ==
    \/ OnMount
    \/ ClickConnect
    \/ ClickDisconnect
    \/ OnDestroy
    \/ TimerFire
    \/ \E h \in Handles : TransportOpen(h)
    \/ \E h \in Handles : \E fatal \in BOOLEAN : TransportError(h, fatal)
    \/ \E t \in TokenValues : SetToken(t)
    \/ ClearToken

TokenSpec == TokenInit /\ [][TokenNext]_vars

(* ---------------------------------------------------------------------- *)
(* api.request.  A call reads the stored token, awaits fetch and then      *)
(* looks at the response; calls overlap, and the stored token may be       *)
(* rewritten by a login or by another tab while a call is in flight.       *)
(* ---------------------------------------------------------------------- *)

CallsInFlight == rInflight["t1"] + rInflight["t2"] + rInflight[NoToken]

\* How a call ends for a response: the data is returned or an error with
\* this message is thrown.  response.ok is true for status 200 here.
RequestOutcome(resp) ==
    IF resp.status = 401 THEN "Unauthorized"
    ELSE IF resp.body = "garbage" THEN "Backend returned invalid JSON"
    ELSE IF resp.status # 200
         THEN IF resp.body = "detail" THEN "detail" ELSE "Request failed"
    ELSE "data"

\* The call starts: the token is read for the Authorization header and
\* fetch is awaited.
RequestStart ==
    /\ CallsInFlight < MaxCalls
    /\ rInflight' = [rInflight EXCEPT ![GetToken] = @ + 1]
    /\ UNCHANGED <<token, urlToken, rOutcome, rLocation>>
    /\ UNCHANGED <<monVars, dashVars, pollVars>>

\* fetch rejects (no response): the TypeError leaves the call.
FetchReject(t) ==
    /\ rInflight[t] > 0
    /\ rInflight' = [rInflight EXCEPT ![t] = @ - 1]
    /\ rOutcome' = "TypeError"
    /\ UNCHANGED <<token, urlToken, rLocation>>
    /\ UNCHANGED <<monVars, dashVars, pollVars>>

\* The rest of the call that clears the token on every failed status.
RequestCompleteClearsOnFailure(t, resp) ==
    /\ rInflight[t] > 0
    /\ rInflight' = [rInflight EXCEPT ![t] = @ - 1]
    /\ rOutcome' = RequestOutcome(resp)
    /\ IF resp.status # 200
       THEN token' = NoToken /\ rLocation' = "/login"
       ELSE UNCHANGED <<token, rLocation>>
    /\ UNCHANGED urlToken
    /\ UNCHANGED <<monVars, dashVars, pollVars>>

\* fetch resolves with a response: the rest of the call runs.
RequestComplete(t, resp) ==
    /\ rInflight[t] > 0
    /\ rInflight' = [rInflight EXCEPT ![t] = @ - 1]
    /\ rOutcome' = RequestOutcome(resp)
    /\ IF resp.status = 401
       THEN token' = NoToken /\ rLocation' = "/login"
       ELSE UNCHANGED <<token, rLocation>>
    /\ UNCHANGED urlToken
    /\ UNCHANGED <<monVars, dashVars, pollVars>>

ReqNext ==
    \/ RequestStart
    \/ \E t \in StoredTokens : FetchReject(t)
    \/ \E t \in StoredTokens : \E resp \in Responses : RequestComplete(t, resp)
    \/ \E t \in TokenValues : SetToken(t)
    \/ ClearToken

ReqSpec == TokenInit /\ [][ReqNext]_vars

(* ---------------------------------------------------------------------- *)
(* The Dashboard page (Dashboard.svelte).  It creates one EventSource when *)
(* it is mounted and never another one.  A message whose text is not JSON  *)
(* makes JSON.parse throw before anything is assigned: that step changes   *)
(* nothing and is a stuttering step of the specification.                  *)
(* ---------------------------------------------------------------------- *)

\* `x || 0` of a field of raw.stats: an absent field reads as 0.
RawField(raw, k) == IF k \in DOMAIN raw THEN raw[k] ELSE 0

\* The object loadStats builds from raw.stats.  hits + misses is NaN, hence
\* 0, unless both fields are present.
LoadedStats(raw) ==
    [k \in DOMAIN DashInitialStats |->
        IF k = "total_keys" THEN RawField(raw, "total_keys")
        ELSE IF k = "cache_hit_rate" THEN RawField(raw, "hit_rate")
        ELSE IF k = "avg_response_time_ms" THEN 0
        ELSE IF k = "requests_per_second"
             THEN IF {"hits", "misses"} \subseteq DOMAIN raw
                  THEN raw["hits"] + raw["misses"] ELSE 0
        ELSE IF k = "total_size_bytes" THEN RawField(raw, "cache_size")
        ELSE IF k = "uptime_seconds" THEN RawField(raw, "uptime_seconds")
        ELSE RawField(raw, "memory_usage_mb")]

\* onMount: loadStats() issues its request, connectSSE() creates the
\* EventSource.
DashMount ==
    /\ dPhase = "created"
    /\ dPhase' = "mounted"
    /\ dPending' = dPending + 1
    /\ dReady' = "CONNECTING"
    /\ UNCHANGED <<dStats, dLoading, dError, dErrored>>
    /\ UNCHANGED <<monVars, authVars, pollVars>>

\* The Refresh button: loadStats() issues another request.
DashRefresh ==
    /\ dPhase = "mounted"
    /\ dPending < MaxRequests
    /\ dPending' = dPending + 1
    /\ UNCHANGED <<dPhase, dReady, dStats, dLoading, dError, dErrored>>
    /\ UNCHANGED <<monVars, authVars, pollVars>>

\* api.getStats() resolves: loadStats replaces the stats object.
LoadStatsResolve(raw) ==
    /\ dPending > 0
    /\ dPending' = dPending - 1
    /\ dStats' = LoadedStats(raw)
    /\ dLoading' = FALSE
    /\ UNCHANGED <<dPhase, dReady, dError, dErrored>>
    /\ UNCHANGED <<monVars, authVars, pollVars>>

\* api.getStats() rejects: loadStats stores the message.
LoadStatsReject(msg) ==
    /\ dPending > 0
    /\ dPending' = dPending - 1
    /\ dError' = msg
    /\ dLoading' = FALSE
    /\ UNCHANGED <<dPhase, dReady, dStats, dErrored>>
    /\ UNCHANGED <<monVars, authVars, pollVars>>

\* The Dashboard's EventSource opens; no onopen listener is registered.
DashOpen ==
    /\ dReady = "CONNECTING"
    /\ dReady' = "OPEN"
    /\ UNCHANGED <<dPhase, dStats, dLoading, dError, dPending, dErrored>>
    /\ UNCHANGED <<monVars, authVars, pollVars>>

\* onmessage: the payload is merged into stats.
DashMessage(data) ==
    /\ dReady = "OPEN"
    /\ dStats' = Merge(dStats, data)
    /\ UNCHANGED <<dPhase, dReady, dLoading, dError, dPending, dErrored>>
    /\ UNCHANGED <<monVars, authVars, pollVars>>

\* onerror that opens the stream again.
DashErrorReconnects(fatal) ==
    /\ dReady \in {"CONNECTING", "OPEN"}
    /\ fatal => dReady = "CONNECTING"
    /\ dReady' = "CONNECTING"
    /\ dErrored' = TRUE
    /\ UNCHANGED <<dPhase, dStats, dLoading, dError, dPending>>
    /\ UNCHANGED <<monVars, authVars, pollVars>>

\* onerror: the browser has given up on the EventSource (fatal) or started
\* to re-establish it; the listener closes it and schedules nothing.
DashError(fatal) ==
    /\ dReady \in {"CONNECTING", "OPEN"}
    /\ fatal => dReady = "CONNECTING"
    /\ dReady' = "CLOSED"
    /\ dErrored' = TRUE
    /\ UNCHANGED <<dPhase, dStats, dLoading, dError, dPending>>
    /\ UNCHANGED <<monVars, authVars, pollVars>>

\* onDestroy: if (eventSource) eventSource.close()
DashDestroy ==
    /\ dPhase = "mounted"
    /\ dPhase' = "destroyed"
    /\ dReady' = IF dReady # "NONE" THEN "CLOSED" ELSE dReady
    /\ UNCHANGED <<dStats, dLoading, dError, dPending, dErrored>>
    /\ UNCHANGED <<monVars, authVars, pollVars>>

DashNext ==
    \/ DashMount
    \/ DashRefresh
    \/ \E raw \in RawStats : LoadStatsResolve(raw)
    \/ \E msg \in LoadErrors : LoadStatsReject(msg)
    \/ DashOpen
    \/ \E data \in DashPayloads : DashMessage(data)
    \/ \E fatal \in BOOLEAN : DashError(fatal)
    \/ DashDestroy

DashSpec == Init /\ [][DashNext]_vars

(* ---------------------------------------------------------------------- *)
(* The training-status poller of the ML models page (MLModels.svelte):     *)
(* one training of one model.  Every tick of setInterval issues a status   *)
(* request; the requests are independent of one another, so their          *)
(* responses arrive in any order, and clearInterval stops the ticks but    *)
(* not the requests already in flight.                                     *)
(* ---------------------------------------------------------------------- *)

InflightCount == pInflight["REQ"] + pInflight["ERR"] + pInflight["PENDING"]
                    + pInflight["STARTED"] + pInflight["SUCCESS"] + pInflight["FAILURE"]

\* trainModel: api.trainModel has resolved; the task entry is created and
\* pollTrainingStatus starts the interval.
TrainModel ==
    /\ pStatus = "NONE"
    /\ pStatus' = "PENDING"
    /\ pProgress' = 0
    /\ pInterval' = TRUE
    /\ pServer' = "PENDING"
    /\ UNCHANGED <<pInflight, pSawSuccess>>
    /\ UNCHANGED <<monVars, authVars, dashVars>>

\* The training task advances on the server.
ServerAdvance ==
    /\ \/ pServer = "PENDING" /\ pServer' = "STARTED"
       \/ pServer = "STARTED" /\ pServer' \in {"SUCCESS", "FAILURE"}
    /\ UNCHANGED <<pStatus, pProgress, pInterval, pInflight, pSawSuccess>>
    /\ UNCHANGED <<monVars, authVars, dashVars>>

\* A tick of the interval: the callback calls api.getTrainingStatus.
PollTick ==
    /\ pInterval
    /\ InflightCount < MaxInflight
    /\ pInflight' = [pInflight EXCEPT !["REQ"] = @ + 1]
    /\ UNCHANGED <<pStatus, pProgress, pInterval, pServer, pSawSuccess>>
    /\ UNCHANGED <<monVars, authVars, dashVars>>

\* The server answers one request with the task's current status, or the
\* request fails.
ServerReply(d) ==
    /\ pInflight["REQ"] > 0
    /\ d \in {pServer, "ERR"}
    /\ pInflight' = [pInflight EXCEPT !["REQ"] = @ - 1, ![d] = @ + 1]
    /\ UNCHANGED <<pStatus, pProgress, pInterval, pServer, pSawSuccess>>
    /\ UNCHANGED <<monVars, authVars, dashVars>>

\* The interval callback that also stops polling when the task has failed.
PollResolveStopsOnFailure(st) ==
    /\ pInflight[st] > 0
    /\ pInflight' = [pInflight EXCEPT ![st] = @ - 1]
    /\ pStatus' = st
    /\ pProgress' = IF st = "SUCCESS" THEN 100 ELSE ServerProgress(st)
    /\ pInterval' = IF st \in {"SUCCESS", "FAILURE"} THEN FALSE ELSE pInterval
    /\ pSawSuccess' = (pSawSuccess \/ st = "SUCCESS")
    /\ UNCHANGED pServer
    /\ UNCHANGED <<monVars, authVars, dashVars>>

\* A status request resolves: the callback stores status and progress and,
\* on SUCCESS, clears the interval and sets the progress to 100.
PollResolve(st) ==
    /\ pInflight[st] > 0
    /\ pInflight' = [pInflight EXCEPT ![st] = @ - 1]
    /\ pStatus' = st
    /\ pProgress' = IF st = "SUCCESS" THEN 100 ELSE ServerProgress(st)
    /\ pInterval' = IF st = "SUCCESS" THEN FALSE ELSE pInterval
    /\ pSawSuccess' = (pSawSuccess \/ st = "SUCCESS")
    /\ UNCHANGED pServer
    /\ UNCHANGED <<monVars, authVars, dashVars>>

\* A status request rejects: the catch block clears the interval.
PollReject ==
    /\ pInflight["ERR"] > 0
    /\ pInflight' = [pInflight EXCEPT !["ERR"] = @ - 1]
    /\ pInterval' = FALSE
    /\ UNCHANGED <<pStatus, pProgress, pServer, pSawSuccess>>
    /\ UNCHANGED <<monVars, authVars, dashVars>>

PollNext ==
    \/ TrainModel
    \/ ServerAdvance
    \/ PollTick
    \/ \E d \in Deliveries : ServerReply(d)
    \/ \E st \in TaskStatuses : PollResolve(st)
    \/ PollReject

PollSpec == Init /\ [][PollNext]_vars

(* ---------------------------------------------------------------------- *)
(* Claims                                                                  *)
(* ---------------------------------------------------------------------- *)

\* A call of disconnect(): the Disconnect button or component teardown.
DisconnectCall == ClickDisconnect \/ OnDestroy

\* C1: in every reachable state at most one transport handle that was
\* created and not yet closed exists.
C1_AtMostOneLiveTransport == Cardinality(Live) <= 1

\* C2: connect() called while the state is Connecting or Connected is a
\* no-op: it creates no transport and changes neither the flag, the log nor
\* the stats.
C2_ConnectIsNoOpWhenConnecting ==
    [][((ClickConnect \/ TimerFire) /\ ConnectionState \in {"Connecting", "Connected"})
        => UNCHANGED <<eventSource, readyState, connected, metrics, stats>>]_vars

\* C3: after stop() (teardown, which calls disconnect) the stats snapshot
\* and the activity log are never mutated again.
C3_NoMutationAfterStop ==
    [][phase = "destroyed" => UNCHANGED <<stats, metrics>>]_vars

\* C4: disconnect() cancels any pending reconnect: no reconnect timer is
\* pending once it returns.
C4_DisconnectCancelsReconnect ==
    [][DisconnectCall => timers' = 0]_vars

\* C5: disconnect() called in any connection state ends in Disconnected
\* with no live transport.
C5_DisconnectEndsDisconnected ==
    [][DisconnectCall => (ConnectionState' = "Disconnected" /\ Live' = {})]_vars

\* C6: a transport error while Connected moves the state to
\* ReconnectScheduled and appends exactly one error entry in front of the
\* old entries; the reconnect timer, when it fires, makes the state
\* Connecting with a transport that did not exist before.
C6_ErrorThenReconnect ==
    [][/\ \A h \in Handles : \A fatal \in BOOLEAN :
            (TransportError(h, fatal) /\ ConnectionState = "Connected")
            => /\ ConnectionState' = "ReconnectScheduled"
               /\ metrics' # <<>>
               /\ metrics'[1].type = "error"
               /\ Tail(metrics') = SubSeq(metrics, 1, Len(metrics') - 1)
               /\ Len(metrics') \in {Len(metrics), Len(metrics) + 1}
       /\ TimerFire
            => /\ ConnectionState' = "Connecting"
               /\ readyState[eventSource'] = "NONE"]_vars

\* C6 witness: the page was connected, its transport failed, the timer
\* fired, and a second transport is connecting with no Connect click.
C6_Witness ==
    /\ eventSource = 2 /\ readyState[2] = "CONNECTING" /\ readyState[1] = "CLOSED"
    /\ timers = 0
    /\ Len(metrics) = 2
    /\ metrics[1].type = "error" /\ metrics[2].type = "success"

\* C7: reconnection is unconditional and unbounded: every transport error,
\* however many handles were created before, schedules one more reconnect
\* timer, and a pending timer is followed by the creation of a new transport.
C7_AlwaysRetries ==
    /\ [][\A h \in Handles : \A fatal \in BOOLEAN :
            TransportError(h, fatal) => timers' = timers + 1]_vars
    /\ \A c \in 0..(MaxHandles - 1) :
            (timers > 0 /\ NumCreated = c) ~> (NumCreated > c)

\* C7 witness: a second failure has been followed by a third attempt.
C7_Witness ==
    /\ NumCreated = 3
    /\ readyState[1] = "CLOSED" /\ readyState[2] = "CLOSED"
    /\ readyState[3] = "CONNECTING"
    /\ timers = 0
    /\ Len(metrics) = 2 /\ metrics[1].type = "error" /\ metrics[2].type = "error"

\* C8: the activity log never holds more than 100 entries.
C8_LogBounded == Len(metrics) <= 100

\* C8 witness: the log is full after more than 100 appends of several kinds.
C8_Witness ==
    /\ Len(metrics) = 100
    /\ appended > 100
    /\ metrics[1].type = "warning"
    /\ metrics[2].type = "error"

\* C9: after k appends the log holds the min(k, 100) most recently appended
\* entries, newest first.
C9_MostRecentNewestFirst ==
    /\ Len(metrics) = Min(appended, 100)
    /\ \A i \in 1..Len(metrics) : metrics[i].timestamp = appended - i + 1

\* C9 witness: after 150 appends the last entry is the 51st appended.
C9_Witness ==
    /\ appended = 150
    /\ Len(metrics) = 100
    /\ metrics[100].timestamp = 51

\* C10: no step removes or reorders existing log entries: a step leaves the
\* log alone or puts one entry in front of the old ones, and an old entry
\* is dropped only from the end of a full log.
C10_HistorySurvives ==
    [][\/ metrics' = metrics
       \/ /\ Len(metrics') = Min(Len(metrics) + 1, 100)
          /\ \A i \in 1..(Len(metrics') - 1) : metrics'[i + 1] = metrics[i]]_vars

\* C10 witness: entries written before an error, a reconnect and a
\* disconnect are still in the log behind the entries of those steps.
C10_Witness ==
    /\ Len(metrics) = 100
    /\ eventSource = 2 /\ readyState[2] = "CLOSED"
    /\ metrics[1].type = "warning"
    /\ metrics[2].type = "success"
    /\ metrics[3].type = "error"
    /\ metrics[4].message = "cpu: 1"

\* The step overwrites every field present in the update.
Overwrites(data) ==
    \A k \in DOMAIN data : k \in DOMAIN stats' /\ stats'[k] = data[k]

\* The step leaves every field absent from the update at its previous value.
Retains(data) ==
    \A k \in (DOMAIN stats) \ (DOMAIN data) : k \in DOMAIN stats' /\ stats'[k] = stats[k]

\* The step puts exactly one entry of the given severity in front of the log.
Prepended(type) ==
    /\ appended' = appended + 1
    /\ metrics' # <<>>
    /\ metrics'[1].type = type
    /\ metrics'[1].timestamp = appended'
    /\ Len(metrics') = Min(Len(metrics) + 1, 100)
    /\ \A i \in 1..(Len(metrics') - 1) : metrics'[i + 1] = metrics[i]

\* The payload carries a metric name.
HasMetric(data) == "metric" \in DOMAIN data /\ data["metric"] # ""

\* The recognized stats fields the payload carries.
StatsFieldsOf(data) == (DOMAIN data) \cap RecognizedFields

\* C11: shallow merge: an initial_stats update overwrites every field it
\* carries and leaves every other field at its previous value; a message
\* never touches a field it does not carry, and when it changes the snapshot
\* it overwrites every field it carries.
C11_ShallowMerge ==
    [][\A h \in Handles : \A data \in Payloads :
        /\ InitialStatsEvent(h, data) => (Overwrites(data) /\ Retains(data))
        /\ MessageEvent(h, data) =>
              (Retains(data) /\ (stats' # stats => Overwrites(data)))]_vars

\* C11 witness: an initial update set total_keys to 10 and a later delta
\* that carries only cache_hit_rate set it to 9; total_keys is still 10 and
\* the other fields still 0.
C11_Witness ==
    /\ DOMAIN stats = RecognizedFields
    /\ stats["total_keys"] = 10
    /\ stats["cache_hit_rate"] = 9
    /\ stats["avg_response_time_ms"] = 0
    /\ stats["requests_per_second"] = 0
    /\ Len(metrics) = 2
    /\ metrics[1].message = "Initial stats received"

\* C12: a message carrying any non-empty subset of the recognized stats
\* fields is merged: every recognized field of the payload has the
\* payload's value afterwards.
C12_MessageMergesAnySubset ==
    [][\A h \in Handles : \A data \in Payloads :
        MessageEvent(h, data) =>
            \A k \in StatsFieldsOf(data) : stats'[k] = data[k]]_vars

\* C13: last arrival wins: when an initial_stats or message frame arrives,
\* every recognized field it carries takes its value and every other
\* recognized field keeps the value of the last frame that carried it.
C13_LastArrivalWins ==
    [][\A h \in Handles : \A data \in Payloads :
        (InitialStatsEvent(h, data) \/ MessageEvent(h, data)) =>
            \A k \in RecognizedFields :
                stats'[k] = IF k \in DOMAIN data THEN data[k] ELSE stats[k]]_vars

\* C14: a frame that is not valid JSON never changes the connection state
\* and never raises an error out of the frame handler.
C14_MalformedNeverThrows ==
    [][\A h \in Handles :
        MalformedEvent(h) =>
            (ConnectionState' = ConnectionState /\ escaped' = escaped)]_vars

\* C15: a malformed frame appends exactly one error entry, leaves the
\* stats alone, closes no transport and schedules no reconnect.
C15_MalformedLogsError ==
    [][\A h \in Handles :
        MalformedEvent(h) =>
            /\ Prepended("error")
            /\ UNCHANGED <<stats, readyState, timers>>]_vars

\* C16: a heartbeat changes nothing: stats, log and connection state are
\* the same before and after it is handled.
C16_HeartbeatSilent ==
    [][\A h \in Handles :
        HeartbeatEvent(h) =>
            /\ UNCHANGED <<stats, metrics, connected, eventSource, readyState, timers>>
            /\ ConnectionState' = ConnectionState]_vars

\* C16 witness: a heartbeat was handled on a page that has log entries and
\* merged stats.
C16_Witness ==
    /\ beats
    /\ metrics # <<>>
    /\ stats # InitialStats

\* C17: transport open, transport error and disconnect each append exactly
\* one log entry in the step that changes the connection, of severity
\* success, error and warning, and leave the stats alone.
C17_LifecycleLogged ==
    [][/\ \A h \in Handles :
            TransportOpen(h) =>
                (Prepended("success") /\ connected' /\ stats' = stats)
       /\ \A h \in Handles : \A fatal \in BOOLEAN :
            TransportError(h, fatal) =>
                (Prepended("error") /\ ~connected' /\ stats' = stats)
       /\ DisconnectCall =>
                (Prepended("warning") /\ ~connected' /\ stats' = stats)]_vars

\* C17 witness: an open, an error and a disconnect were logged in turn.
C17_Witness ==
    /\ Len(metrics) = 3
    /\ metrics[3].type = "success"
    /\ metrics[2].type = "error"
    /\ metrics[1].type = "warning"

\* C18: an initial_stats event merges its payload and appends exactly one
\* info entry, whichever handle delivers it.
C18_InitialStatsMergedAndLogged ==
    [][\A h \in Handles : \A data \in Payloads :
        InitialStatsEvent(h, data) =>
            /\ stats' = [k \in (DOMAIN stats) \cup (DOMAIN data) |->
                            IF k \in DOMAIN data THEN data[k] ELSE stats[k]]
            /\ Prepended("info")
            /\ metrics'[1].message = "Initial stats received"]_vars

\* C18 witness: the second transport, created by the reconnect timer after
\* an error, delivered initial_stats and it was merged and logged.
C18_Witness ==
    /\ eventSource = 2 /\ readyState[2] = "OPEN" /\ readyState[1] = "CLOSED"
    /\ Len(metrics) = 3
    /\ metrics[1].message = "Initial stats received"
    /\ metrics[2].type = "success"
    /\ metrics[3].type = "error"
    /\ stats["total_keys"] = 10
    /\ stats["cache_hit_rate"] = 5

\* C19: a message with a metric name appends exactly one info entry; with a
\* metric name and stats fields it also merges them; with neither it
\* changes neither the log nor the stats.
C19_MessageRouting ==
    [][\A h \in Handles : \A data \in Payloads :
        MessageEvent(h, data) =>
            /\ HasMetric(data) => Prepended("info")
            /\ (HasMetric(data) /\ StatsFieldsOf(data) # {}) =>
                    \A k \in StatsFieldsOf(data) : stats'[k] = data[k]
            /\ (~HasMetric(data) /\ StatsFieldsOf(data) = {}) =>
                    UNCHANGED <<metrics, stats>>]_vars

\* The last thing the page did to its connection was a disconnect().
AlreadyDisconnected ==
    /\ eventSource # 0
    /\ readyState[eventSource] = "CLOSED"
    /\ ~connected
    /\ metrics # <<>>
    /\ metrics[1].message = "Disconnected from stream"

\* C20: disconnect() on an already disconnected page changes nothing.
C20_DisconnectIdempotent ==
    [][(DisconnectCall /\ AlreadyDisconnected) =>
        UNCHANGED <<eventSource, readyState, connected, stats, metrics, timers>>]_vars

\* C21: the log append and the stats merge of one frame happen in one
\* step: a step that logs an initial_stats notice also merges a payload, an
\* initial_stats or metric-and-stats message step does both, and no step
\* appends more than one entry.
C21_FrameAtomic ==
    [][/\ appended' \in {appended, appended + 1}
       /\ (appended' # appended /\ metrics'[1].message = "Initial stats received")
            => \E data \in Payloads :
                  stats' = [k \in (DOMAIN stats) \cup (DOMAIN data) |->
                               IF k \in DOMAIN data THEN data[k] ELSE stats[k]]
       /\ \A h \in Handles : \A data \in Payloads :
            /\ InitialStatsEvent(h, data) => appended' = appended + 1
            /\ (HasMetric(data) /\ "cache_hit_rate" \in DOMAIN data
                    /\ MessageEvent(h, data))
                 => (Prepended("info") /\ Overwrites(data))]_vars

\* C21 witness: one message frame both logged its metric and merged its
\* stats field.
C21_Witness ==
    /\ Len(metrics) = 2
    /\ metrics[1].message = "cpu: 1"
    /\ "metric" \in DOMAIN stats
    /\ stats["cache_hit_rate"] = 9

\* C23: no terminal state: one disconnect() leads to Disconnected from
\* every state, and a connect() in Disconnected leads to Connecting with a
\* new transport.
C23_NoTerminalState ==
    [][/\ DisconnectCall => ConnectionState' = "Disconnected"
       /\ (ClickConnect /\ ConnectionState = "Disconnected")
            => (ConnectionState' = "Connecting" /\ readyState[eventSource'] = "NONE")]_vars

\* C24: at most one reconnect timer is pending at any time.
C24_AtMostOneTimer == timers <= 1

\* C25: the handle the error listener closes is the handle that reported
\* the error, and no other handle changes.
C25_ErrorClosesReporter ==
    [][\A h \in Handles : \A fatal \in BOOLEAN :
        TransportError(h, fatal) =>
            /\ readyState'[h] = "CLOSED"
            /\ \A g \in Handles \ {h} : readyState'[g] = readyState[g]]_vars

\* C26: connected is true only if the handle stored in eventSource is open.
C26_IndicatorAgrees ==
    connected => (eventSource # 0 /\ readyState[eventSource] = "OPEN")

\* C27: only initial_stats and message events change the stats: mount,
\* connect, open, error, timer and disconnect steps leave every field alone.
C27_StatsOnlyByFrames ==
    [][stats' # stats =>
        \E h \in Handles : \E data \in Payloads :
            InitialStatsEvent(h, data) \/ MessageEvent(h, data)]_vars

\* C27 witness: a merged value is still in the snapshot after the transport
\* failed and the reconnect timer created the next one.
C27_Witness ==
    /\ eventSource = 2 /\ readyState[2] = "CONNECTING" /\ readyState[1] = "CLOSED"
    /\ timers = 0
    /\ metrics # <<>> /\ metrics[1].type = "error"
    /\ stats["total_keys"] = 10
    /\ stats["requests_per_second"] = 0

\* C28: a merge copies every key of the payload, recognized or not, and no
\* step ever removes a key from the snapshot.
C28_KeysOnlyGrow ==
    [][/\ (DOMAIN stats) \subseteq (DOMAIN stats')
       /\ \A h \in Handles : \A data \in Payloads :
            (InitialStatsEvent(h, data)
                \/ ("cache_hit_rate" \in DOMAIN data /\ MessageEvent(h, data)))
            => /\ DOMAIN stats' = (DOMAIN stats) \cup (DOMAIN data)
               /\ \A k \in DOMAIN data : stats'[k] = data[k]]_vars

\* C28 witness: the metric and value of a message are keys of the snapshot
\* next to the merged stats fields.
C28_Witness ==
    /\ DOMAIN stats = RecognizedFields \cup {"metric", "value"}
    /\ stats["metric"] = "cpu" /\ stats["value"] = 1
    /\ stats["cache_hit_rate"] = 9
    /\ stats["total_keys"] = 10
    /\ Len(metrics) = 3
    /\ metrics[1].message = "cpu: 1"

\* C22: every transport is created with the token stored at the moment of
\* its creation, its URL never changes afterwards, and a handle that does
\* not exist yet has read no token.
C22_TokenReadPerAttempt ==
    [][\A h \in Handles :
        /\ (readyState[h] = "NONE" /\ readyState'[h] # "NONE")
             => urlToken'[h] = TokenQuery(token)
        /\ readyState[h] # "NONE" => urlToken'[h] = urlToken[h]
        /\ readyState'[h] = "NONE" => urlToken'[h] = "none"]_vars

\* C22 witness: the transport created by an automatic reconnect carries the
\* token stored after the first transport was created.
C22_Witness ==
    /\ readyState[1] = "CLOSED" /\ urlToken[1] = "t1"
    /\ eventSource = 2 /\ urlToken[2] = "t2"
    /\ timers = 0
    /\ Len(metrics) = 1 /\ metrics[1].type = "error"

\* C29: on the Dashboard page the first transport error closes the stream,
\* and once an error has happened the stream stays closed and only a
\* resolved loadStats changes the stats.
C29_DashboardErrorIsFinal ==
    [][/\ \A fatal \in BOOLEAN : DashError(fatal) => dReady' = "CLOSED"
       /\ dErrored =>
            /\ dReady' = "CLOSED"
            /\ dStats' # dStats => \E raw \in RawStats : LoadStatsResolve(raw)]_vars

\* C29 witness: the page is still mounted after the error, holds a value
\* merged from the stream and has a refresh in flight.
C29_Witness ==
    /\ dErrored /\ dPhase = "mounted" /\ dReady = "CLOSED"
    /\ dStats["total_keys"] = 10
    /\ dPending = 1

\* C30: once a poll has observed SUCCESS the task entry keeps status
\* SUCCESS and progress 100, whatever requests complete afterwards.
C30_SuccessIsFinal ==
    pSawSuccess => (pStatus = "SUCCESS" /\ pProgress = 100)

\* C31: the interval is cleared by a poll that observes SUCCESS and by a
\* status request that throws, and by nothing else: every other reported
\* status, FAILURE included, leaves it running.  A cleared interval issues
\* no request and is never started again; a running one can always tick
\* while there is room for a request.
C31_PollingStopsExactly ==
    [][/\ PollResolve("SUCCESS") => ~pInterval'
       /\ PollReject => ~pInterval'
       /\ \A st \in TaskStatuses \ {"SUCCESS"} :
            PollResolve(st) => pInterval' = pInterval
       /\ (pInterval /\ ~pInterval') => (PollResolve("SUCCESS") \/ PollReject)
       /\ (~pInterval /\ pStatus # "NONE")
            => (~pInterval' /\ pInflight'["REQ"] <= pInflight["REQ"])
       /\ (pInterval /\ InflightCount < MaxInflight) => ENABLED PollTick]_vars

\* C31 witness: the task has failed, the poller has observed it, and the
\* requests in flight were all issued and none answered yet, so at least
\* one tick came after the failure was observed.
C31_Witness ==
    /\ pStatus = "FAILURE" /\ pServer = "FAILURE"
    /\ pInterval
    /\ pInflight["REQ"] = MaxInflight

\* C32: a call of api.request that gets a response with status 401 clears
\* the stored token and fails with Unauthorized; a call that ends in any
\* other way, and the start of a call, leave the stored token as it is.
C32_TokenClearedOnlyOn401 ==
    [][/\ \A t \in StoredTokens : \A resp \in Responses :
            RequestComplete(t, resp) =>
                IF resp.status = 401
                THEN token' = NoToken /\ rOutcome' = "Unauthorized"
                ELSE token' = token
       /\ \A t \in StoredTokens : FetchReject(t) => token' = token
       /\ RequestStart => token' = token]_vars

\* C32 witness: a call made with a token ended in Unauthorized and the
\* stored token is gone, while another call made with that token is still
\* in flight.
C32_Witness ==
    /\ rOutcome = "Unauthorized"
    /\ token = NoToken
    /\ rLocation = "/login"
    /\ rInflight["t1"] = 1

====
